---- MODULE Spec2Model ----
(***************************************************************************)
(* Model of meilisearch-http/src/raft/router.rs: the RaftRouter, a         *)
(* DashMap<NodeId, RwLock<Client>> of gRPC clients, with add_client and    *)
(* the RaftNetwork call operations append_entries, install_snapshot and    *)
(* vote, plus Client::forward.                                             *)
(*                                                                         *)
(* Tasks are async tasks polled by the runtime's worker threads.  A DashMap *)
(* shard lock is a synchronous lock: a task waiting for it keeps its       *)
(* worker thread.  The tokio RwLock and the network awaits suspend the     *)
(* task and free the worker.                                               *)
(***************************************************************************)
EXTENDS Naturals, Sequences, FiniteSets, TLC

\* ---------------------------------------------------------------- bounds
NumTasks == 2
NumPeers == 2
NumShards == 1

Tasks == 1..NumTasks
NodeIds == 1..NumPeers
Shards == 0..(NumShards - 1)
Addrs == {"10.0.0.1:9000", "10.0.0.2:9000"}
None == 0
NoClient == [addr |-> "", rpc_client |-> ""]

\* The three operations of impl RaftNetwork for RaftRouter, and the other two.
RouterKinds == {"append_entries", "install_snapshot", "vote"}
Kinds == RouterKinds \cup {"forward", "add_client"}

\* A typed request: a body, and whether its Serialize implementation succeeds.
Requests == [body : {1}, valid : BOOLEAN]
NoRequest == [body |-> 1, valid |-> TRUE]
\* Response payloads a peer can put on the wire: well formed or truncated.
Payloads == {<<>>, <<0, 0>>, <<1, 0>>}
\* Status codes of a failed RPC.
Statuses == {"Unavailable"}

\* -------------------------------------------------------------- results
Ok(v) == [arg |-> v, kind |-> "Ok", msg |-> "", ok |-> TRUE]
Err(k, m) == [arg |-> 0, kind |-> k, msg |-> m, ok |-> FALSE]
NoResult == [arg |-> 0, kind |-> "Pending", msg |-> "", ok |-> FALSE]

\* The operation of a task: what was called, on which peer, with what.
NoOp == [addr |-> "", kind |-> "add_client", req |-> NoRequest, target |-> 1]

\* anyhow::Error::msg(text): an ad-hoc error that carries only a message.
AnyhowMsg(text) == Err("anyhow::msg", text)
\* `?` on a bincode result: the bincode error converted into anyhow::Error.
BincodeError(what) == Err("bincode::Error", what)

\* format!("Client {} not found.", target)
NotFoundText(target) == "Client " \o ToString(target) \o " not found."
\* tonic::Status as Display
StatusText(status) == "status: " \o status
\* format!("http://{}", addr)
Uri(addr) == "http://" \o addr

\* --------------------------------------------------------------- codec
\* bincode::serialize: a fixed-width little-endian encoding of the body.
serialize(req) ==
    IF req.valid THEN <<req.body % 2, req.body \div 2>> ELSE <<"error">>
SerializeFails(req) == ~req.valid
\* bincode::deserialize: fails on anything but the fixed width.
DeserializeFails(bytes) == Len(bytes) # 2
deserialize(bytes) == bytes[1] + 2 * bytes[2]

VARIABLES
    clients,     \* RaftRouter.clients: NodeId -> Client (NoClient when absent)
    shardW,      \* DashMap shard -> task holding its write lock (None if free)
    shardR,      \* DashMap shard -> tasks holding a read lock (a live Ref)
    lockHolder,  \* NodeId -> task holding the entry's tokio RwLock for writing
    lockQueue,   \* NodeId -> FIFO queue of tasks waiting in write().await
    pc,          \* task -> where it is in its operation
    op,          \* task -> the operation it runs: kind, target, addr, req
    result,      \* task -> what its last operation returned
    wire,        \* RPCs in flight: [task, peer, chan, method, payload]
    dials,       \* task -> connects attempted by its current operation
    rpcs,        \* task -> RPCs issued by its current operation
    workers      \* worker threads of the runtime

vars == <<clients, shardW, shardR, lockHolder, lockQueue, pc, op, result,
          wire, dials, rpcs, workers>>

\* DashMap::determine_map: the shard of a key, by its hash.
ShardOf(id) == id % NumShards

\* An entry lookup that takes every key for vacant (insert, not entry).
OccupiedNever(id) == FALSE
\* Entry::Occupied: the map has an entry for the key.
Occupied(id) == clients[id] # NoClient
\* A lookup that takes every key for present.
FoundAlways(id) == TRUE
\* DashMap::get(&target) is Some.
Found(id) == clients[id] # NoClient
\* An entry lookup that does not lock the shard (check, then insert).
EntryLockFreeRacy(s) == TRUE
\* DashMap::entry can take the shard's write lock: no writer, no reader.
EntryLockFree(s) == shardW[s] = None /\ shardR[s] = {}
\* DashMap::get can take the shard's read lock: no writer.
GetLockFree(s) == shardW[s] = None
\* One lock for the whole map.
LockOfMap(id) == 1
\* The RwLock that guards a peer's Client: the one inside its own entry.
LockOf(id) == id
\* One retry after a failed RPC.
AttemptsRetry == 1 + 1
\* The times an operation sends its request: once, there is no retry loop.
Attempts == 1

\* Worker threads that are running (or blocked inside) a task.
Busy == {t \in Tasks : pc[t] \in {"entry", "get"}}
FreeWorker == Cardinality(Busy) < workers

\* The address a seeded registry has for a peer.
SeedAddr(id) == IF id % 2 = 1 THEN "10.0.0.1:9000" ELSE "10.0.0.2:9000"
\* The client add_client(id, SeedAddr(id)) inserts.
SeedClient(id) == [addr |-> SeedAddr(id), rpc_client |-> Uri(SeedAddr(id))]
\* RaftRouter::new (the empty map), and the routers that successful
\* add_client calls made of it: the odd peers registered, or all of them.
Registries ==
    { [id \in NodeIds |-> NoClient],
      [id \in NodeIds |-> IF id % 2 = 1 THEN SeedClient(id) ELSE NoClient],
      [id \in NodeIds |-> SeedClient(id)] }

Init ==
    /\ clients \in Registries
    /\ shardW = [s \in Shards |-> None]
    /\ shardR = [s \in Shards |-> {}]
    /\ lockHolder = [id \in NodeIds |-> None]
    /\ lockQueue = [id \in NodeIds |-> <<>>]
    /\ pc = [t \in Tasks |-> "idle"]
    /\ op = [t \in Tasks |-> NoOp]
    /\ result = [t \in Tasks |-> NoResult]
    /\ wire = {}
    /\ dials = [t \in Tasks |-> 0]
    /\ rpcs = [t \in Tasks |-> 0]
    /\ workers = NumTasks

\* A task is spawned for operation o and polled for the first time, on a
\* free worker thread.  The poll runs on to the first await, or blocks (pc "entry"
\* or "get", keeping the worker) on a shard lock of the map.
Start(t, o) ==
    /\ pc[t] = "idle"
    /\ FreeWorker
    /\ op' = [op EXCEPT ![t] = o]
    /\ UNCHANGED workers

\* The task blocks at `at`, before its operation did anything.
Block(t, at) ==
    /\ pc' = [pc EXCEPT ![t] = at]
    /\ result' = [result EXCEPT ![t] = NoResult]
    /\ dials' = [dials EXCEPT ![t] = 0]
    /\ rpcs' = [rpcs EXCEPT ![t] = 0]

\* The operation returns r to its caller.
Return(t, r) ==
    /\ pc' = [pc EXCEPT ![t] = "done"]
    /\ result' = [result EXCEPT ![t] = r]

\* The operation awaits at `at`.
Await(t, at) ==
    /\ pc' = [pc EXCEPT ![t] = at]
    /\ result' = [result EXCEPT ![t] = NoResult]

\* ----------------------------------------------------------- add_client
\* The match on self.clients.entry(id), once entry() has the shard's lock.
AddClientMatch(t, o) ==
    IF Occupied(o.target)
    THEN \* Entry::Occupied(_) => (): the entry is dropped, Ok(())
         /\ Return(t, Ok(0))
         /\ dials' = [dials EXCEPT ![t] = 0]
         /\ UNCHANGED shardW
    ELSE \* Entry::Vacant(entry): connect(..).await with the entry alive
         /\ shardW' = [shardW EXCEPT ![ShardOf(o.target)] = t]
         /\ dials' = [dials EXCEPT ![t] = 1]
         /\ Await(t, "connect")

AddClientCall(t, id, addr) ==
    LET o == [addr |-> addr, kind |-> "add_client", req |-> NoRequest,
              target |-> id]
    IN  /\ Start(t, o)
        /\ IF EntryLockFree(ShardOf(id))
           THEN AddClientMatch(t, o) /\ rpcs' = [rpcs EXCEPT ![t] = 0]
           ELSE Block(t, "entry") /\ UNCHANGED shardW
        /\ UNCHANGED <<clients, shardR, lockHolder, lockQueue, wire>>

\* self.clients.entry(id) gets the shard's write lock it was waiting for.
AddClientEntry(t) ==
    /\ pc[t] = "entry"
    /\ EntryLockFree(ShardOf(op[t].target))
    /\ AddClientMatch(t, op[t])
    /\ UNCHANGED <<clients, shardR, lockHolder, lockQueue, op, wire, rpcs,
                   workers>>

\* An insert that happens whether or not connect succeeded.
ClientsAfterConnectAlways(t, connected) ==
    [clients EXCEPT ![op[t].target] = [addr |-> op[t].addr,
                                       rpc_client |-> Uri(op[t].addr)]]
\* An insert before the dial's outcome is known: no channel on failure.
ClientsAfterConnectPartial(t, connected) ==
    [clients EXCEPT ![op[t].target] =
        [addr |-> op[t].addr,
         rpc_client |-> IF connected THEN Uri(op[t].addr) ELSE ""]]
\* A failed connect that clears the map.
ClientsAfterConnectReset(t, connected) ==
    IF connected
    THEN [clients EXCEPT ![op[t].target] = [addr |-> op[t].addr,
                                            rpc_client |-> Uri(op[t].addr)]]
    ELSE [id \in NodeIds |-> NoClient]
\* The map once connect resolved: entry.insert(RwLock::new(client)) on
\* success, and nothing on failure (the `?` returns before the insert).
ClientsAfterConnect(t, connected) ==
    IF connected
    THEN [clients EXCEPT ![op[t].target] = [addr |-> op[t].addr,
                                            rpc_client |-> Uri(op[t].addr)]]
    ELSE clients

\* connect resolved with a channel: the client is inserted, Ok(()).
AddClientConnected(t) ==
    /\ pc[t] = "connect"
    /\ FreeWorker
    /\ clients' = ClientsAfterConnect(t, TRUE)
    /\ shardW' = [shardW EXCEPT ![ShardOf(op[t].target)] = None]
    /\ Return(t, Ok(0))
    /\ UNCHANGED <<shardR, lockHolder, lockQueue, op, wire, dials, rpcs,
                   workers>>

\* connect resolved with an error: `?` returns it, dropping the entry.
AddClientConnectFailed(t) ==
    /\ pc[t] = "connect"
    /\ FreeWorker
    /\ clients' = ClientsAfterConnect(t, FALSE)
    /\ shardW' = [shardW EXCEPT ![ShardOf(op[t].target)] = None]
    /\ Return(t, Err("tonic::transport::Error", "connect"))
    /\ UNCHANGED <<shardR, lockHolder, lockQueue, op, wire, dials, rpcs,
                   workers>>

\* ------------------------------------------------------- tokio RwLock
\* A lock that admits a writer while another holds it.
CanWriteShared(id) == TRUE
\* RwLock::write() without waiting: nobody holds the lock.
CanWrite(id) == lockHolder[LockOf(id)] = None
\* A drop that frees the lock without passing it to the first waiter.
HolderAfterDropLost(id) == None
\* A guard that is never dropped.
HolderAfterDropLeak(id) == lockHolder[LockOf(id)]
\* Dropping the write guard: the lock passes to the first waiter, if any.
HolderAfterDrop(id) ==
    IF lockQueue[LockOf(id)] = <<>> THEN None ELSE Head(lockQueue[LockOf(id)])
QueueAfterDrop(id) ==
    IF lockQueue[LockOf(id)] = <<>> THEN <<>> ELSE Tail(lockQueue[LockOf(id)])

\* The task takes the lock and goes on: write().await is ready at once.
LockNow(t, id) ==
    /\ lockHolder' = [lockHolder EXCEPT ![LockOf(id)] = t]
    /\ UNCHANGED lockQueue
\* The task joins the queue of the lock: write().await is pending.
LockLater(t, id) ==
    /\ lockQueue' = [lockQueue EXCEPT ![LockOf(id)] = Append(@, t)]
    /\ UNCHANGED lockHolder
\* The write guard is dropped.
Unlock(id) ==
    /\ lockHolder' = [lockHolder EXCEPT ![LockOf(id)] = HolderAfterDrop(id)]
    /\ lockQueue' = [lockQueue EXCEPT ![LockOf(id)] = QueueAfterDrop(id)]

\* --------------------------------------------------------- gRPC client
\* Every operation invoking append_entries (a copied body left unedited).
MethodAppendOnly(kind) == "AppendEntries"
\* The RaftServiceClient method each operation invokes.
Method(kind) ==
    CASE kind = "append_entries" -> "AppendEntries"
      [] kind = "install_snapshot" -> "InstallSnapshot"
      [] kind = "vote" -> "Vote"
      [] kind = "forward" -> "Forward"
      [] OTHER -> "none"

\* The request put on the wire by client.rpc_client.<method>(payload).
Request(t, o) ==
    [chan |-> clients[o.target].rpc_client,
     method |-> Method(o.kind), payload |-> serialize(o.req),
     peer |-> o.target, task |-> t]

\* The RPC of task t, in flight.
InFlight(t) == {w \in wire : w.task = t}

\* client.rpc_client.<method>(payload).await: the request goes out.
Send(t, o) ==
    /\ wire' = wire \cup {Request(t, o)}
    /\ rpcs' = [rpcs EXCEPT ![t] = 1]
    /\ Await(t, "rpc")

\* A match that takes a decoded rejection (first byte 0) for a failure.
RouterOutcomeRejects(ok, bytes, status) ==
    IF ok
    THEN IF DeserializeFails(bytes)
         THEN BincodeError("deserialize")
         ELSE IF bytes[1] = 0
         THEN AnyhowMsg("rejected")
         ELSE Ok(deserialize(bytes))
    ELSE AnyhowMsg(StatusText(status))
\* What the match on the RPC's result returns, in the router's operations.
RouterOutcome(ok, bytes, status) ==
    IF ok
    THEN IF DeserializeFails(bytes)
         THEN BincodeError("deserialize")
         ELSE Ok(deserialize(bytes))
    ELSE AnyhowMsg(StatusText(status))

\* ------------------------------ append_entries, install_snapshot, vote
\* self.clients.get(&target), serialize(&rpc)?, client.write().await and,
\* if the lock is free, the RPC: what one poll runs once get() has the
\* shard's read lock.
CallLookup(t, o) ==
    LET id == o.target
        s == ShardOf(id)
    IN  IF ~Found(id)
        THEN \* .ok_or_else(|| anyhow::Error::msg(..))?
             /\ Return(t, AnyhowMsg(NotFoundText(id)))
             /\ rpcs' = [rpcs EXCEPT ![t] = 0]
             /\ UNCHANGED <<shardR, lockHolder, lockQueue, wire>>
        ELSE IF SerializeFails(o.req)
        THEN \* serialize(&rpc)?: the Ref is dropped on the way out
             /\ Return(t, BincodeError("serialize"))
             /\ rpcs' = [rpcs EXCEPT ![t] = 0]
             /\ UNCHANGED <<shardR, lockHolder, lockQueue, wire>>
        ELSE IF CanWrite(id)
        THEN \* the lock is free: the RPC is sent in the same poll
             /\ shardR' = [shardR EXCEPT ![s] = @ \cup {t}]
             /\ LockNow(t, id)
             /\ Send(t, o)
        ELSE \* the task waits in the lock's queue, holding the Ref
             /\ shardR' = [shardR EXCEPT ![s] = @ \cup {t}]
             /\ LockLater(t, id)
             /\ Await(t, "write")
             /\ rpcs' = [rpcs EXCEPT ![t] = 0]
             /\ UNCHANGED wire

Call(t, kind, target, req) ==
    LET o == [addr |-> "", kind |-> kind, req |-> req, target |-> target]
    IN  /\ kind \in RouterKinds
        /\ Start(t, o)
        /\ IF GetLockFree(ShardOf(target))
           THEN CallLookup(t, o) /\ dials' = [dials EXCEPT ![t] = 0]
           ELSE /\ Block(t, "get")
                /\ UNCHANGED <<shardR, lockHolder, lockQueue, wire>>
        /\ UNCHANGED <<clients, shardW>>

\* self.clients.get(&target) gets the shard's read lock it was waiting for.
CallGet(t) ==
    /\ pc[t] = "get"
    /\ op[t].kind \in RouterKinds
    /\ GetLockFree(ShardOf(op[t].target))
    /\ CallLookup(t, op[t])
    /\ UNCHANGED <<clients, shardW, op, dials, workers>>

\* write().await returns the guard: client.rpc_client.<method>(payload)
CallLocked(t) ==
    /\ pc[t] = "write"
    /\ op[t].kind \in RouterKinds
    /\ lockHolder[LockOf(op[t].target)] = t
    /\ FreeWorker
    /\ Send(t, op[t])
    /\ UNCHANGED <<clients, shardW, shardR, lockHolder, lockQueue, op, dials,
                   workers>>

\* A return that keeps the guard when `?` leaves on a bincode error.
FinishDecodeLeak(t, r) ==
    /\ wire' = wire \ InFlight(t)
    /\ Return(t, r)
    /\ IF r.kind = "bincode::Error"
       THEN UNCHANGED <<lockHolder, lockQueue>>
       ELSE Unlock(op[t].target)
    /\ shardR' = [shardR EXCEPT ![ShardOf(op[t].target)] = @ \ {t}]
\* The task of an operation that returns r: guard and Ref are dropped.
Finish(t, r) ==
    /\ wire' = wire \ InFlight(t)
    /\ Return(t, r)
    /\ Unlock(op[t].target)
    /\ shardR' = [shardR EXCEPT ![ShardOf(op[t].target)] = @ \ {t}]

\* The RPC resolved: the match returns.
CallResolved(t, ok, bytes, status) ==
    /\ pc[t] = "rpc"
    /\ op[t].kind \in RouterKinds
    /\ FreeWorker
    /\ IF ~ok /\ rpcs[t] < Attempts
       THEN \* the request is sent again (never, with a single attempt)
            /\ rpcs' = [rpcs EXCEPT ![t] = @ + 1]
            /\ UNCHANGED <<wire, pc, result, lockHolder, lockQueue, shardR>>
       ELSE /\ Finish(t, RouterOutcome(ok, bytes, status))
            /\ UNCHANGED rpcs
    /\ UNCHANGED <<clients, shardW, op, dials, workers>>

CallRpcOk(t, bytes) == CallResolved(t, TRUE, bytes, "")
CallRpcErr(t, status) == CallResolved(t, FALSE, <<>>, status)

\* ------------------------------------------- Client::forward and caller
\* What Client::forward returns once its RPC resolved: `?` converts the
\* tonic::Status, and the bincode error, into anyhow::Error.
ForwardOutcome(ok, bytes, status) ==
    IF ok
    THEN IF DeserializeFails(bytes)
         THEN BincodeError("deserialize")
         ELSE Ok(deserialize(bytes))
    ELSE Err("tonic::Status", StatusText(status))

\* Look the target up and take its lock; then Client::forward serializes
\* the request and sends it.
ForwardLookup(t, o) ==
    LET id == o.target
        s == ShardOf(id)
    IN  IF ~Found(id)
        THEN /\ Return(t, AnyhowMsg(NotFoundText(id)))
             /\ rpcs' = [rpcs EXCEPT ![t] = 0]
             /\ UNCHANGED <<shardR, lockHolder, lockQueue, wire>>
        ELSE IF ~CanWrite(id)
        THEN /\ shardR' = [shardR EXCEPT ![s] = @ \cup {t}]
             /\ LockLater(t, id)
             /\ Await(t, "write")
             /\ rpcs' = [rpcs EXCEPT ![t] = 0]
             /\ UNCHANGED wire
        ELSE IF SerializeFails(o.req)
        THEN \* serialize(&req)? in forward: guard and Ref are dropped
             /\ Return(t, BincodeError("serialize"))
             /\ rpcs' = [rpcs EXCEPT ![t] = 0]
             /\ UNCHANGED <<shardR, lockHolder, lockQueue, wire>>
        ELSE /\ shardR' = [shardR EXCEPT ![s] = @ \cup {t}]
             /\ LockNow(t, id)
             /\ Send(t, o)

ForwardWrite(t, target, req) ==
    LET o == [addr |-> "", kind |-> "forward", req |-> req, target |-> target]
    IN  /\ Start(t, o)
        /\ IF GetLockFree(ShardOf(target))
           THEN ForwardLookup(t, o) /\ dials' = [dials EXCEPT ![t] = 0]
           ELSE /\ Block(t, "get")
                /\ UNCHANGED <<shardR, lockHolder, lockQueue, wire>>
        /\ UNCHANGED <<clients, shardW>>

\* The lookup gets the shard's read lock it was waiting for.
ForwardWriteGet(t) ==
    /\ pc[t] = "get"
    /\ op[t].kind = "forward"
    /\ GetLockFree(ShardOf(op[t].target))
    /\ ForwardLookup(t, op[t])
    /\ UNCHANGED <<clients, shardW, op, dials, workers>>

\* The lock was granted to the waiting task: Client::forward starts.
ForwardWriteLocked(t) ==
    /\ pc[t] = "write"
    /\ op[t].kind = "forward"
    /\ lockHolder[LockOf(op[t].target)] = t
    /\ FreeWorker
    /\ IF SerializeFails(op[t].req)
       THEN /\ Finish(t, BincodeError("serialize"))
            /\ UNCHANGED rpcs
       ELSE /\ Send(t, op[t])
            /\ UNCHANGED <<shardR, lockHolder, lockQueue>>
    /\ UNCHANGED <<clients, shardW, op, dials, workers>>

\* The RPC of Client::forward resolved; the caller drops guard and Ref.
ForwardResolved(t, ok, bytes, status) ==
    /\ pc[t] = "rpc"
    /\ op[t].kind = "forward"
    /\ FreeWorker
    /\ IF ~ok /\ rpcs[t] < Attempts
       THEN /\ rpcs' = [rpcs EXCEPT ![t] = @ + 1]
            /\ UNCHANGED <<wire, pc, result, lockHolder, lockQueue, shardR>>
       ELSE /\ Finish(t, ForwardOutcome(ok, bytes, status))
            /\ UNCHANGED rpcs
    /\ UNCHANGED <<clients, shardW, op, dials, workers>>

ForwardRpcOk(t, bytes) == ForwardResolved(t, TRUE, bytes, "")
ForwardRpcErr(t, status) == ForwardResolved(t, FALSE, <<>>, status)

\* ------------------------------------------- dropping a call's future
\* A drop that forgets the guard: the lock stays with the dropped task.
HolderAfterAbandonKept(t, id) == lockHolder[LockOf(id)]
\* The lock once the future of task t is dropped: its guard, if it has
\* the lock, is dropped with it; as a waiter it only leaves the queue.
HolderAfterAbandon(t, id) ==
    IF lockHolder[LockOf(id)] = t
    THEN HolderAfterDrop(id)
    ELSE lockHolder[LockOf(id)]
QueueAfterAbandon(t, id) ==
    IF lockHolder[LockOf(id)] = t
    THEN QueueAfterDrop(id)
    ELSE SelectSeq(lockQueue[LockOf(id)], LAMBDA u : u # t)

\* The caller drops the future of a call at an await (write().await or the
\* RPC): the locals of the operation are dropped, that is the RPC future,
\* the write guard or the pending write(), and the Ref.
Abandon(t) ==
    /\ pc[t] \in {"write", "rpc"}
    /\ FreeWorker
    /\ pc' = [pc EXCEPT ![t] = "dropped"]
    /\ wire' = wire \ InFlight(t)
    /\ lockHolder' = [lockHolder EXCEPT ![LockOf(op[t].target)] =
                         HolderAfterAbandon(t, op[t].target)]
    /\ lockQueue' = [lockQueue EXCEPT ![LockOf(op[t].target)] =
                        QueueAfterAbandon(t, op[t].target)]
    /\ shardR' = [shardR EXCEPT ![ShardOf(op[t].target)] = @ \ {t}]
    /\ UNCHANGED <<clients, shardW, op, result, dials, rpcs, workers>>

\* The steps of add_client.
AddStep ==
    \/ \E t \in Tasks, id \in NodeIds, addr \in Addrs : AddClientCall(t, id, addr)
    \/ \E t \in Tasks : AddClientEntry(t)
    \/ \E t \in Tasks : AddClientConnected(t)
    \/ \E t \in Tasks : AddClientConnectFailed(t)

\* The steps of append_entries, install_snapshot and vote, but for the
\* polls of GetStep.
RouterStep ==
    \/ \E t \in Tasks, kind \in RouterKinds, id \in NodeIds, req \in Requests :
          Call(t, kind, id, req)
    \/ \E t \in Tasks : CallLocked(t)
    \/ \E t \in Tasks, bytes \in Payloads : CallRpcOk(t, bytes)
    \/ \E t \in Tasks, status \in Statuses : CallRpcErr(t, status)

\* The steps of a forwarded write, but for the polls of GetStep.
ForwardStep ==
    \/ \E t \in Tasks, id \in NodeIds, req \in Requests : ForwardWrite(t, id, req)
    \/ \E t \in Tasks : ForwardWriteLocked(t)
    \/ \E t \in Tasks, bytes \in Payloads : ForwardRpcOk(t, bytes)
    \/ \E t \in Tasks, status \in Statuses : ForwardRpcErr(t, status)

\* The steps of the call operations, but for the polls of GetStep.
CallStep == RouterStep \/ ForwardStep

\* A call that was blocked in get(), behind the entry of an add_client that
\* is dialling on the shard, gets the shard's read lock.
GetStep ==
    \/ \E t \in Tasks : CallGet(t)
    \/ \E t \in Tasks : ForwardWriteGet(t)

Next == AddStep \/ CallStep \/ GetStep

Spec == Init /\ [][Next]_vars

\* What the scheduler and the network do for a call of task t once it has
\* started: a runnable task is polled, and its RPC resolves.
CallProgress(t) ==
    \/ CallGet(t)
    \/ CallLocked(t)
    \/ \E bytes \in Payloads : CallRpcOk(t, bytes)
    \/ \E status \in Statuses : CallRpcErr(t, status)
    \/ ForwardWriteGet(t)
    \/ ForwardWriteLocked(t)
    \/ \E bytes \in Payloads : ForwardRpcOk(t, bytes)
    \/ \E status \in Statuses : ForwardRpcErr(t, status)

\* A router whose peers are all registered, used for call operations only.
\* No add_client runs, so no shard is ever write-locked and get() never
\* blocks: the polls of GetStep cannot happen.
CallsInit == Init /\ \A id \in NodeIds : clients[id] # NoClient

LiveCalls ==
    /\ CallsInit
    /\ [][CallStep]_vars
    /\ \A t \in Tasks : WF_vars(CallProgress(t))

\* Callers that may drop a call at any await.
AbandonStep == \E t \in Tasks : Abandon(t)

\* The operations of impl RaftNetwork on a router whose peers are all
\* registered, with callers that may abandon them; the polls and the RPC of
\* a call that goes on are as in LiveCalls.
LiveAbandon ==
    /\ CallsInit
    /\ [][RouterStep \/ AbandonStep]_vars
    /\ \A t \in Tasks : WF_vars(CallProgress(t))

\* A runtime with any number of worker threads, from one to one per task.
FewWorkersInit ==
    /\ clients \in Registries
    /\ shardW = [s \in Shards |-> None]
    /\ shardR = [s \in Shards |-> {}]
    /\ lockHolder = [id \in NodeIds |-> None]
    /\ lockQueue = [id \in NodeIds |-> <<>>]
    /\ pc = [t \in Tasks |-> "idle"]
    /\ op = [t \in Tasks |-> NoOp]
    /\ result = [t \in Tasks |-> NoResult]
    /\ wire = {}
    /\ dials = [t \in Tasks |-> 0]
    /\ rpcs = [t \in Tasks |-> 0]
    /\ workers \in 1..NumTasks

\* What the scheduler and the network do for an add_client of task t once
\* it has started: entry() returns when the shard is free, and the dial
\* resolves.
AddProgress(t) ==
    \/ AddClientEntry(t)
    \/ AddClientConnected(t)
    \/ AddClientConnectFailed(t)

\* All operations, on a runtime with few workers: every dial and every RPC
\* resolves, and a task that can be polled is polled.
FewWorkers ==
    /\ FewWorkersInit
    /\ [][Next]_vars
    /\ \A t \in Tasks : WF_vars(CallProgress(t)) /\ WF_vars(AddProgress(t))

\* ================================================================ claims
IsCall(t) == op[t].kind \in RouterKinds \cup {"forward"}
IsAdd(t) == op[t].kind = "add_client"
Returned(t) == pc[t] = "done"
\* The error a call operation returns for a target that has no entry.
UnknownPeer(id) == AnyhowMsg(NotFoundText(id))
\* The step in which the call of task t looks its target up: its first
\* poll, or the poll that gets the shard lock it was blocked on.
LooksUp(t) ==
    /\ pc[t] \in {"idle", "get"}
    /\ pc'[t] \notin {"idle", "get"}
    /\ op'[t].kind \in RouterKinds \cup {"forward"}
\* The step in which add_client of task t matches on the entry.
Matches(t) ==
    /\ pc[t] \in {"idle", "entry"}
    /\ pc'[t] \notin {"idle", "entry"}
    /\ op'[t].kind = "add_client"

\* C1: a call operation whose target has no entry in the registry returns
\* the not-found error in the step that looks the target up, and that step
\* issues no RPC, acquires or queues for no peer lock, and leaves the
\* registry unchanged.
C1_UnknownPeerNoIO ==
    [][\A t \in Tasks :
          (LooksUp(t) /\ clients[op'[t].target] = NoClient)
          => /\ pc'[t] = "done"
             /\ result'[t] = UnknownPeer(op'[t].target)
             /\ rpcs'[t] = 0
             /\ wire' = wire
             /\ lockHolder' = lockHolder
             /\ lockQueue' = lockQueue
             /\ shardR' = shardR
             /\ clients' = clients]_vars

\* A call to an absent peer has returned the not-found error.
C1_Witness ==
    \E t \in Tasks :
        /\ Returned(t) /\ IsCall(t)
        /\ clients[op[t].target] = NoClient
        /\ result[t] = UnknownPeer(op[t].target)
        /\ rpcs[t] = 0

\* Task t dialled for id, and its dial is pending or succeeded.
Dialled(t, id) ==
    /\ IsAdd(t) /\ op[t].target = id /\ dials[t] > 0
    /\ pc[t] = "connect" \/ (Returned(t) /\ result[t].ok)

\* C2: for every peer id at most one add_client ever dials with success
\* (or is dialling); the registry's client for the id is bound to that
\* call's address; every other add_client for the id that returned success
\* made no connection attempt, and found the entry present.
C2_OneConnection ==
    \A id \in NodeIds :
        /\ Cardinality({t \in Tasks : Dialled(t, id)}) <= 1
        /\ \A t \in Tasks :
              (Dialled(t, id) /\ Returned(t))
              => clients[id] = [addr |-> op[t].addr,
                                rpc_client |-> Uri(op[t].addr)]
        /\ \A t \in Tasks :
              (IsAdd(t) /\ op[t].target = id /\ Returned(t) /\ result[t].ok)
              => clients[id] # NoClient /\ dials[t] <= 1

\* Two add_client calls for one id with different addresses both returned
\* success; one dialled, the other did not, and the winner's address stays.
C2_Witness ==
    \E t1, t2 \in Tasks :
        /\ t1 # t2 /\ IsAdd(t1) /\ IsAdd(t2)
        /\ op[t1].target = op[t2].target /\ op[t1].addr # op[t2].addr
        /\ Returned(t1) /\ Returned(t2) /\ result[t1].ok /\ result[t2].ok
        /\ dials[t1] = 1 /\ dials[t2] = 0
        /\ clients[op[t1].target].addr = op[t1].addr

\* C3: at most one RPC to a peer is in flight, and the task whose RPC is in
\* flight holds that peer's lock.
C3_OneRpcPerPeer ==
    /\ \A id \in NodeIds : Cardinality({w \in wire : w.peer = id}) <= 1
    /\ \A w \in wire : lockHolder[w.peer] = w.task /\ pc[w.task] = "rpc"
    /\ \A t \in Tasks : pc[t] = "rpc" => \E w \in wire : w.task = t

\* An RPC to a peer is in flight while a forwarded write to the same peer
\* waits for the lock.
C3_Witness ==
    \E t1, t2 \in Tasks :
        /\ t1 # t2 /\ op[t1].target = op[t2].target
        /\ pc[t1] = "rpc" /\ pc[t2] = "write"
        /\ op[t1].kind \in RouterKinds /\ op[t2].kind = "forward"

InCall(t) == IsCall(t) /\ pc[t] \in {"get", "write", "rpc"}

\* C4: with every peer registered and only call operations running, every
\* call that has started eventually returns, provided runnable tasks are
\* polled and every RPC resolves.
C4_CallsReturn ==
    \A t \in Tasks : InCall(t) ~> Returned(t)

\* A call that waited in the lock's queue has been handed the lock.
C4_Witness ==
    \E t \in Tasks :
        /\ IsCall(t) /\ pc[t] = "write"
        /\ lockHolder[op[t].target] = t

\* The lookup of a call, for the operation task t runs.
LookupEnabled(t) ==
    IF op[t].kind = "forward"
    THEN ENABLED ForwardWriteGet(t)
    ELSE ENABLED CallGet(t)

\* C5: a call is never held up by a call to another peer: a call waits
\* for a peer lock only behind a call to the same peer, and the lookup of
\* a call can run unless an add_client is dialling on the target's shard,
\* whatever RPCs to other peers are in flight.
C5_NoCrossPeerBlocking ==
    \A t \in Tasks :
        /\ (IsCall(t) /\ pc[t] = "write" /\ lockHolder[op[t].target] # t)
           => \E u \in Tasks \ {t} :
                 /\ IsCall(u) /\ op[u].target = op[t].target
                 /\ pc[u] \in {"write", "rpc"}
                 /\ lockHolder[op[t].target] = u
        /\ (IsCall(t) /\ pc[t] = "get"
              /\ \A u \in Tasks :
                    ~(/\ IsAdd(u) /\ pc[u] = "connect"
                      /\ ShardOf(op[u].target) = ShardOf(op[t].target)))
           => LookupEnabled(t)

\* RPCs to two different peers are in flight at the same time.
C5_Witness ==
    \E t1, t2 \in Tasks :
        /\ op[t1].target # op[t2].target
        /\ pc[t1] = "rpc" /\ pc[t2] = "rpc"
        /\ \E w1, w2 \in wire : w1.task = t1 /\ w2.task = t2

\* C6: when the dial of add_client fails, add_client returns the connect
\* error, the registry is unchanged and has no entry for the id, and the
\* shard is unlocked; and an add_client that finds no entry always dials.
C6_FailedConnectInsertsNothing ==
    [][\A t \in Tasks :
          /\ (pc[t] = "connect" /\ pc'[t] = "done" /\ ~result'[t].ok)
             => /\ result'[t].kind = "tonic::transport::Error"
                /\ clients' = clients
                /\ clients'[op[t].target] = NoClient
                /\ shardW'[ShardOf(op[t].target)] = None
          /\ (Matches(t) /\ clients[op'[t].target] = NoClient)
             => pc'[t] = "connect" /\ dials'[t] = 1]_vars

\* add_client failed to connect, and a call to the same id returned the
\* not-found error.
C6_Witness ==
    \E t1, t2 \in Tasks :
        /\ IsAdd(t1) /\ Returned(t1) /\ ~result[t1].ok /\ dials[t1] = 1
        /\ IsCall(t2) /\ Returned(t2) /\ op[t2].target = op[t1].target
        /\ result[t2] = UnknownPeer(op[t2].target)
        /\ clients[op[t1].target] = NoClient

\* C7: add_client for an id that has an entry returns Ok in the step that
\* looks the entry up, without dialling, and leaves the registry, the
\* wire and the shard locks unchanged.
C7_AddClientIdempotent ==
    [][\A t \in Tasks :
          (Matches(t) /\ clients[op'[t].target] # NoClient)
          => /\ pc'[t] = "done"
             /\ result'[t] = Ok(0)
             /\ dials'[t] = 0
             /\ clients' = clients
             /\ wire' = wire
             /\ shardW' = shardW]_vars

\* add_client with another address returned Ok without dialling, and the
\* entry keeps the address it had.
C7_Witness ==
    \E t \in Tasks :
        /\ IsAdd(t) /\ Returned(t) /\ result[t].ok /\ dials[t] = 0
        /\ clients[op[t].target] # NoClient
        /\ clients[op[t].target].addr # op[t].addr

\* C8: the step in which the RPC of a call fails returns an error that
\* carries the status, takes the RPC off the wire, drops the caller's
\* lock guard and Ref, and leaves the registry unchanged with the entry
\* present; the lock is free or passed to the first waiter.
C8_RpcFailureReleases ==
    [][\A t \in Tasks, status \in Statuses :
          (CallRpcErr(t, status) \/ ForwardRpcErr(t, status))
          => /\ pc'[t] = "done"
             /\ ~result'[t].ok
             /\ result'[t].msg = StatusText(status)
             /\ clients' = clients
             /\ clients'[op[t].target] # NoClient
             /\ lockHolder'[op[t].target] # t
             /\ lockHolder'[op[t].target] =
                   IF lockQueue[op[t].target] = <<>>
                   THEN None
                   ELSE Head(lockQueue[op[t].target])
             /\ t \notin shardR'[ShardOf(op[t].target)]
             /\ \A w \in wire' : w.peer # op[t].target]_vars

\* A call returned an RPC failure, and a later call to the same peer has
\* the lock and its RPC in flight.
C8_Witness ==
    \E t1, t2 \in Tasks :
        /\ t1 # t2 /\ IsCall(t1) /\ IsCall(t2)
        /\ op[t1].target = op[t2].target
        /\ Returned(t1) /\ ~result[t1].ok
        /\ \E status \in Statuses : result[t1].msg = StatusText(status)
        /\ pc[t2] = "rpc" /\ lockHolder[op[t2].target] = t2

\* The three failures of a call that returned an error.
TargetMissing(t) == result[t].msg = NotFoundText(op[t].target)
RpcFailed(t) == \E status \in Statuses : result[t].msg = StatusText(status)
DecodeFailed(t) == result[t].msg = "deserialize"

\* C9, as claimed, for append_entries, install_snapshot and vote: a
\* missing target, a failed RPC and an undecodable response give errors
\* of three different kinds.
C9_DistinctKinds ==
    \A t1, t2 \in Tasks :
        (/\ op[t1].kind \in RouterKinds /\ op[t2].kind \in RouterKinds
         /\ Returned(t1) /\ Returned(t2)
         /\ ~result[t1].ok /\ ~result[t2].ok)
        => /\ (TargetMissing(t1) /\ RpcFailed(t2))
              => result[t1].kind # result[t2].kind
           /\ (TargetMissing(t1) /\ DecodeFailed(t2))
              => result[t1].kind # result[t2].kind
           /\ (RpcFailed(t1) /\ DecodeFailed(t2))
              => result[t1].kind # result[t2].kind

\* C10: no operation sends its request more than once; a call that
\* returned sent it exactly once unless the target was missing or the
\* request did not serialize, and then it sent nothing.
C10_NoRetry ==
    \A t \in Tasks :
        /\ rpcs[t] <= 1
        /\ pc[t] = "rpc" => rpcs[t] = 1
        /\ (IsCall(t) /\ Returned(t))
           => rpcs[t] = IF \/ result[t] = UnknownPeer(op[t].target)
                           \/ ~op[t].req.valid
                        THEN 0
                        ELSE 1

\* A call returned the failure of its single RPC.
C10_Witness ==
    \E t \in Tasks :
        /\ IsCall(t) /\ Returned(t) /\ RpcFailed(t)
        /\ rpcs[t] = 1

\* C11: the step in which the RPC of a call succeeds with response bytes
\* that decode returns Ok carrying the decoded response, whatever its
\* content (a rejected vote decodes to 0), takes the RPC off the wire and
\* leaves the registry unchanged.
C11_DecodedResponseReturned ==
    [][\A t \in Tasks, bytes \in Payloads :
          ((CallRpcOk(t, bytes) \/ ForwardRpcOk(t, bytes)) /\ Len(bytes) = 2)
          => /\ pc'[t] = "done"
             /\ result'[t].ok
             /\ result'[t].kind = "Ok"
             /\ result'[t].arg = bytes[1] + 2 * bytes[2]
             /\ \A w \in wire' : w.task # t
             /\ clients' = clients]_vars

\* A vote returned the decoded response of a peer that rejected it.
C11_Witness ==
    \E t \in Tasks :
        /\ op[t].kind = "vote" /\ Returned(t)
        /\ result[t] = Ok(0) /\ rpcs[t] = 1
        /\ clients[op[t].target] # NoClient

\* An add_client is dialling on shard s, holding the shard's write lock.
DiallingOn(s) ==
    \E u \in Tasks :
        IsAdd(u) /\ pc[u] = "connect" /\ ShardOf(op[u].target) = s

\* C12, as claimed: calls never hold up an add_client and a dialling
\* add_client never holds up a call to a registered peer.  An add_client
\* waits in entry() only behind another add_client that is dialling on the
\* shard, and a call to a registered peer never waits in get().
C12_CallsAndAddsDoNotBlock ==
    \A t \in Tasks :
        /\ (IsAdd(t) /\ pc[t] = "entry" /\ ~DiallingOn(ShardOf(op[t].target)))
           => ENABLED AddClientEntry(t)
        /\ (IsCall(t) /\ pc[t] = "get" /\ clients[op[t].target] # NoClient)
           => LookupEnabled(t)

\* C13: an entry that is present stays present and unchanged in every
\* step, and an entry that appears is the client of the add_client that
\* dialled for it with success: bound to that call's address.
C13_AbsentToConnectedOnly ==
    [][\A id \in NodeIds :
          /\ clients[id] # NoClient => clients'[id] = clients[id]
          /\ (clients[id] = NoClient /\ clients'[id] # NoClient)
             => \E t \in Tasks :
                   /\ pc[t] = "connect" /\ pc'[t] = "done" /\ result'[t].ok
                   /\ op[t].target = id
                   /\ clients'[id].addr = op[t].addr]_vars

\* The entry of a peer is as it was seeded, after a call to the peer
\* returned an RPC failure and an add_client for it with another address
\* returned.
C13_Witness ==
    \E t1, t2 \in Tasks :
        /\ IsCall(t1) /\ Returned(t1) /\ RpcFailed(t1)
        /\ IsAdd(t2) /\ Returned(t2) /\ result[t2].ok
        /\ op[t2].target = op[t1].target
        /\ op[t2].addr # SeedAddr(op[t1].target)
        /\ clients[op[t1].target] = SeedClient(op[t1].target)

Abandoned(t) == pc[t] = "dropped"

\* C14: a call whose caller abandoned it holds no peer lock, waits in no
\* queue and holds no Ref; and every call that started returns unless it
\* is abandoned itself, whatever calls to its peer were abandoned while
\* they held the lock or waited for it.
C14_AbandonReleasesLock ==
    /\ [](\A t \in Tasks :
             Abandoned(t)
             => /\ \A id \in NodeIds :
                      /\ lockHolder[id] # t
                      /\ \A i \in 1..Len(lockQueue[id]) : lockQueue[id][i] # t
                /\ \A s \in Shards : t \notin shardR[s]
                /\ \A w \in wire : w.task # t)
    /\ \A t \in Tasks : InCall(t) ~> (Returned(t) \/ Abandoned(t))

\* A call was abandoned and a call to the same peer returned the response
\* of its RPC.
C14_Witness ==
    \E t1, t2 \in Tasks :
        /\ Abandoned(t1) /\ IsCall(t2) /\ op[t2].target = op[t1].target
        /\ Returned(t2) /\ result[t2].ok /\ rpcs[t2] = 1

\* The call of task t returned the failure of serialize(&rpc).
EncodeFailed(t) == Returned(t) /\ ~result[t].ok /\ result[t].msg = "serialize"

\* C15, as claimed, for append_entries, install_snapshot and vote: a call
\* whose request failed to encode sent no RPC and holds no lock, and its
\* error is of another kind than the error of a call whose RPC failed and
\* than the error of a call whose response failed to decode.
C15_EncodeFailureDistinct ==
    \A t1, t2 \in Tasks :
        (op[t1].kind \in RouterKinds /\ EncodeFailed(t1))
        => /\ rpcs[t1] = 0
           /\ lockHolder[op[t1].target] # t1
           /\ (/\ op[t2].kind \in RouterKinds /\ Returned(t2) /\ ~result[t2].ok
               /\ RpcFailed(t2) \/ DecodeFailed(t2))
              => result[t1].kind # result[t2].kind

\* C16: every RPC in flight was sent by an operation of its own kind and
\* to that operation's target: append_entries sends AppendEntries,
\* install_snapshot InstallSnapshot, vote Vote and a forwarded write
\* Forward, each on the channel of the client registered for the target,
\* and with the encoding of the operation's own request.
C16_OwnMethodOwnPeer ==
    \A w \in wire :
        LET o == op[w.task]
        IN  /\ w.peer = o.target
            /\ w.chan = clients[o.target].rpc_client
            /\ w.chan = Uri(clients[o.target].addr)
            /\ w.payload = serialize(o.req)
            /\ o.kind = "append_entries" => w.method = "AppendEntries"
            /\ o.kind = "install_snapshot" => w.method = "InstallSnapshot"
            /\ o.kind = "vote" => w.method = "Vote"
            /\ o.kind = "forward" => w.method = "Forward"
            /\ o.kind \in RouterKinds \cup {"forward"}

\* A Vote and an InstallSnapshot RPC are in flight together, to two
\* peers, each on its own peer's channel.
C16_Witness ==
    \E w1, w2 \in wire :
        /\ w1.method = "Vote" /\ w2.method = "InstallSnapshot"
        /\ w1.peer # w2.peer /\ w1.chan # w2.chan
        /\ op[w1.task].kind = "vote" /\ op[w2.task].kind = "install_snapshot"

\* C17, as claimed: with any number of workers, every add_client and
\* every call that has started eventually returns.
C17_EveryOperationReturns ==
    \A t \in Tasks : (pc[t] \notin {"idle", "done"}) ~> Returned(t)

\* A client with an address and the channel connected to that address.
Established(c) == c.addr \in Addrs /\ c.rpc_client = "http://" \o c.addr

\* C18: every entry of the registry is a fully established client; the
\* id an add_client is dialling for has no entry; and a call that got
\* past its lookup found an established client, whose channel its RPC
\* uses.
C18_NoPartialEntry ==
    /\ \A id \in NodeIds : clients[id] = NoClient \/ Established(clients[id])
    /\ \A t \in Tasks :
          (IsAdd(t) /\ pc[t] = "connect") => clients[op[t].target] = NoClient
    /\ \A t \in Tasks :
          (IsCall(t) /\ pc[t] \in {"write", "rpc"})
          => Established(clients[op[t].target])
    /\ \A w \in wire : w.chan = "http://" \o clients[w.peer].addr

\* A call looks up a peer while an add_client for that peer is dialling:
\* the lookup waits in get(), and there is no entry yet.
C18_Witness ==
    \E t1, t2 \in Tasks :
        /\ IsAdd(t1) /\ pc[t1] = "connect"
        /\ IsCall(t2) /\ pc[t2] = "get"
        /\ op[t2].target = op[t1].target
        /\ clients[op[t1].target] = NoClient

\* C19: a peer lock is held only by a call to that peer that is in
\* progress (granted the lock, or with its RPC in flight), only such
\* calls wait for it, and a call that returned, with a response or with a
\* decode failure, holds no lock and no Ref and left the entry present.
C19_LockFreeOnEveryExit ==
    /\ \A id \in NodeIds :
          /\ lockHolder[id] # None
             => /\ IsCall(lockHolder[id])
                /\ op[lockHolder[id]].target = id
                /\ pc[lockHolder[id]] \in {"write", "rpc"}
          /\ \A i \in 1..Len(lockQueue[id]) :
                /\ IsCall(lockQueue[id][i])
                /\ op[lockQueue[id][i]].target = id
                /\ pc[lockQueue[id][i]] = "write"
    /\ \A t \in Tasks :
          (IsCall(t) /\ Returned(t))
          => /\ lockHolder[op[t].target] # t
             /\ t \notin shardR[ShardOf(op[t].target)]
             /\ (result[t].ok \/ DecodeFailed(t))
                => clients[op[t].target] # NoClient /\ rpcs[t] = 1

\* A call returned a decode failure, a call to the same peer returned a
\* response, and the peer's lock is free.
C19_Witness ==
    \E t1, t2 \in Tasks :
        /\ IsCall(t1) /\ Returned(t1) /\ DecodeFailed(t1)
        /\ IsCall(t2) /\ Returned(t2) /\ result[t2].ok
        /\ op[t1].target = op[t2].target
        /\ lockHolder[op[t1].target] = None
        /\ clients[op[t1].target] # NoClient
====
